---- MODULE Spec2Model ----
(***************************************************************************)
(* Model of export.py: the ExportArgs dataclass (argument validation and   *)
(* default derivation in __post_init__), parse_args, and the export()      *)
(* routine that calls the model builder, the recipe applier, the weight    *)
(* loader and the ONNX exporter one after the other.                       *)
(*                                                                         *)
(* Text is a sequence of characters.  "." and "/" are the two characters   *)
(* the path functions look at; every other element ("a", "onnx", "model",  *)
(* ...) stands for a non-empty run of ordinary characters.                 *)
(***************************************************************************)
EXTENDS Integers, Sequences, FiniteSets, TLC

VARIABLES raw, fs, pc, args, error, calls, manager, model, state_dict, exported

vars == <<raw, fs, pc, args, error, calls, manager, model, state_dict, exported>>

----------------------------------------------------------------------------
(* Bounds of the checked input space *)

MaxLen == 3
MaxDirLen == 1
MaxShapeLen == 3
MaxBatch == 2

----------------------------------------------------------------------------
(* Values *)

Chars == {".", "/", "a", "onnx"}
Dims == {3, 550}

\* Python's None, distinct from every text (also from the empty text <<>>)
None == <<"<None>">>

Strings(n) == UNION {[1..k -> Chars] : k \in 0..n}

\* truth value of an Optional[str]: None and '' are falsy
Truthy(x) == x # None /\ x # <<>>

ONNX_EXT == <<".", "onnx">>
ARGS_YAML == <<"/", "args", ".", "yaml">>
DEFAULT_SAVE_DIR == <<"onnx">>
DEFAULT_IMAGE_SHAPE == [kind |-> "tuple", items |-> <<3, 550, 550>>]

----------------------------------------------------------------------------
(* Text helpers: str.rfind, str.startswith, str.endswith, str.rstrip *)

\* 1-based index of the last occurrence of c in s, 0 when there is none
\* (Python's s.rfind(c) + 1)
RFind(s, c) ==
    LET hits == {i \in 1..Len(s) : s[i] = c}
    IN  IF hits = {} THEN 0 ELSE CHOOSE i \in hits : \A j \in hits : j <= i

\* 1-based index of the first occurrence of c in s, 0 when there is none
Find(s, c) ==
    LET hits == {i \in 1..Len(s) : s[i] = c}
    IN  IF hits = {} THEN 0 ELSE CHOOSE i \in hits : \A j \in hits : i <= j

StartsWith(s, p) == Len(s) >= Len(p) /\ SubSeq(s, 1, Len(p)) = p

EndsWith(s, p) == Len(s) >= Len(p) /\ SubSeq(s, Len(s) - Len(p) + 1, Len(s)) = p

RECURSIVE RStripSlash(_)
RStripSlash(s) ==
    IF s # <<>> /\ s[Len(s)] = "/" THEN RStripSlash(SubSeq(s, 1, Len(s) - 1)) ELSE s

AllSlashes(s) == \A i \in 1..Len(s) : s[i] = "/"

----------------------------------------------------------------------------
(* pathlib.PurePosixPath *)

RECURSIVE SplitSlash(_)
SplitSlash(s) ==
    LET i == Find(s, "/")
    IN  IF i = 0 THEN <<s>>
        ELSE <<SubSeq(s, 1, i - 1)>> \o SplitSlash(SubSeq(s, i + 1, Len(s)))

IsPart(c) == c # <<>> /\ c # <<".">>

\* the components pathlib keeps: empty ones and "." are dropped
Parts(s) == SelectSeq(SplitSlash(s), IsPart)

\* exactly two leading slashes are kept, any other number is one root
Root(s) ==
    IF ~StartsWith(s, <<"/">>) THEN <<>>
    ELSE IF StartsWith(s, <<"/", "/">>) /\ ~StartsWith(s, <<"/", "/", "/">>)
         THEN <<"/", "/">>
         ELSE <<"/">>

RECURSIVE JoinSlash(_)
JoinSlash(parts) ==
    IF parts = <<>> THEN <<>>
    ELSE IF Len(parts) = 1 THEN parts[1]
    ELSE parts[1] \o <<"/">> \o JoinSlash(Tail(parts))

\* str(Path(s))
PathOf(s) ==
    IF Root(s) = <<>> /\ Parts(s) = <<>> THEN <<".">>
    ELSE Root(s) \o JoinSlash(Parts(s))

\* Path.name of a path p = str(Path(..)): the last component, '' when none
PathName(p) ==
    IF Parts(p) = <<>> THEN <<>> ELSE Parts(p)[Len(Parts(p))]

\* Path.suffix: the last dot of the name and what follows, unless that dot
\* is the first or the last character of the name
PathSuffix(p) ==
    LET name == PathName(p)
        i == RFind(name, ".")
    IN  IF 1 < i /\ i < Len(name) THEN SubSeq(name, i, Len(name)) ELSE <<>>

\* faulty variant of WithSuffixName: every suffix is dropped, not only the last
WithSuffixName_AllSuffixes(p, suffix) ==
    LET name == PathName(p)
        i == Find(SubSeq(name, 2, Len(name)), ".")
    IN  (IF i = 0 THEN name ELSE SubSeq(name, 1, i)) \o suffix

\* Path.with_suffix(suffix).name; with_suffix raises ValueError on an empty name
HasName(p) == PathName(p) # <<>>

WithSuffixName(p, suffix) ==
    LET name == PathName(p)
        old == PathSuffix(p)
    IN  SubSeq(name, 1, Len(name) - Len(old)) \o suffix

\* what the operating system opens for p: a leading "//" is the root "/"
OsPath(p) == IF StartsWith(p, <<"/", "/">>) THEN Tail(p) ELSE p

\* Path.exists()
Exists(p, files) == OsPath(p) \in files

----------------------------------------------------------------------------
(* os.path *)

\* os.path.dirname of str(path)
Dirname(p) ==
    LET head == SubSeq(p, 1, RFind(p, "/"))
    IN  IF head # <<>> /\ ~AllSlashes(head) THEN RStripSlash(head) ELSE head

\* faulty variant of SplitextExt: leading dots of the name are not skipped
SplitextExt_AnyDot(p) ==
    IF RFind(p, ".") > RFind(p, "/") THEN SubSeq(p, RFind(p, "."), Len(p)) ELSE <<>>

\* os.path.splitext(p)[1]
RECURSIVE SplitextScan(_, _, _)
SplitextScan(p, filenameIndex, dotIndex) ==
    IF filenameIndex >= dotIndex THEN <<>>
    ELSE IF p[filenameIndex] # "." THEN SubSeq(p, dotIndex, Len(p))
    ELSE SplitextScan(p, filenameIndex + 1, dotIndex)

SplitextExt(p) ==
    LET sepIndex == RFind(p, "/")
        dotIndex == RFind(p, ".")
    IN  IF dotIndex > sepIndex THEN SplitextScan(p, sepIndex + 1, dotIndex) ELSE <<>>

\* os.path.join(a, b)
PathJoin(a, b) ==
    IF StartsWith(b, <<"/">>) THEN b
    ELSE IF a = <<>> \/ EndsWith(a, <<"/">>) THEN a \o b
    ELSE a \o <<"/">> \o b

----------------------------------------------------------------------------
(* ExportArgs *)

\* the ExportArgs fields before any object exists
NoArgs ==
    [checkpoint |-> None, config |-> None, recipe |-> None, no_qat_conv |-> FALSE,
     batch_size |-> 0, image_shape |-> [kind |-> "none", items |-> <<>>],
     save_dir |-> None, filename |-> None]

NoError == [type |-> "none", msg |-> <<>>, at |-> "none"]

FileNotFoundError(what, p) ==
    [type |-> "FileNotFoundError", msg |-> <<what>> \o p \o <<" does not exist.">>,
     at |-> "ExportArgs"]

ValueError(p) ==
    [type |-> "ValueError", msg |-> p \o <<" has an empty name">>, at |-> "ExportArgs"]

\* self.config = Path(self.config or os.path.dirname(self.checkpoint) + "/args.yaml")
ResolveConfig(config, checkpoint) ==
    PathOf(IF Truthy(config) THEN config ELSE Dirname(checkpoint) \o ARGS_YAML)

\* faulty variant of TupleOf: the sequence is stored as it came
TupleOf_Identity(shape) == shape

\* self.image_shape = tuple(self.image_shape)
TupleOf(shape) == [kind |-> "tuple", items |-> shape.items]

\* faulty variant of ResolveSaveDir: only None is defaulted, '' is kept
ResolveSaveDir_NoneOnly(save_dir) ==
    IF save_dir = None THEN DEFAULT_SAVE_DIR ELSE save_dir

\* if not self.save_dir: self.save_dir = 'onnx'
ResolveSaveDir(save_dir) == IF ~Truthy(save_dir) THEN DEFAULT_SAVE_DIR ELSE save_dir

\* faulty variant of ResolveFilename: a supplied name is never extended
ResolveFilename_NeverAppends(filename, checkpoint) ==
    IF Truthy(filename) THEN filename ELSE WithSuffixName(checkpoint, ONNX_EXT)

\* the filename branch of __post_init__
ResolveFilename(filename, checkpoint) ==
    IF Truthy(filename)
    THEN IF SplitextExt(filename) = <<>> THEN filename \o ONNX_EXT ELSE filename
    ELSE WithSuffixName(checkpoint, ONNX_EXT)

\* faulty variant of PostInitError: the config is checked before the checkpoint
PostInitError_ConfigFirst(r, files) ==
    LET checkpoint == PathOf(r.checkpoint)
        config == ResolveConfig(r.config, checkpoint)
    IN  IF ~Exists(config, files)
        THEN FileNotFoundError("The config file ", config)
        ELSE IF ~Exists(checkpoint, files)
        THEN FileNotFoundError("The checkpoint ", checkpoint)
        ELSE IF ~Truthy(r.filename) /\ ~HasName(checkpoint)
        THEN ValueError(checkpoint)
        ELSE NoError

\* faulty variant of PostInitError: the config is not checked at all
PostInitError_NoConfigCheck(r, files) ==
    LET checkpoint == PathOf(r.checkpoint)
    IN  IF ~Exists(checkpoint, files)
        THEN FileNotFoundError("The checkpoint ", checkpoint)
        ELSE IF ~Truthy(r.filename) /\ ~HasName(checkpoint)
        THEN ValueError(checkpoint)
        ELSE NoError

\* the exception __post_init__ raises for the raw fields r, NoError when none
PostInitError(r, files) ==
    LET checkpoint == PathOf(r.checkpoint)
        config == ResolveConfig(r.config, checkpoint)
    IN  IF ~Exists(checkpoint, files)
        THEN FileNotFoundError("The checkpoint ", checkpoint)
        ELSE IF ~Exists(config, files)
        THEN FileNotFoundError("The config file ", config)
        ELSE IF ~Truthy(r.filename) /\ ~HasName(checkpoint)
        THEN ValueError(checkpoint)
        ELSE NoError

\* the object __post_init__ leaves when it raises nothing
PostInit(r) ==
    LET checkpoint == PathOf(r.checkpoint)
    IN  [checkpoint |-> checkpoint,
         config |-> ResolveConfig(r.config, checkpoint),
         recipe |-> r.recipe,
         no_qat_conv |-> r.no_qat_conv,
         batch_size |-> r.batch_size,
         image_shape |-> TupleOf(r.image_shape),
         save_dir |-> ResolveSaveDir(r.save_dir),
         filename |-> ResolveFilename(r.filename, checkpoint)]

----------------------------------------------------------------------------
(* The objects export() works on *)

NoModel == [built |-> FALSE, log |-> <<>>]

Call(fn, arg) == [fn |-> fn, arg |-> arg]

\* an exception raised inside a collaborator: nothing in export() catches it
Raise(fn) ==
    /\ pc' = "failed"
    /\ error' = [type |-> "Exception", msg |-> <<>>, at |-> fn]

----------------------------------------------------------------------------
(* Inputs *)

Scenario1Checkpoint == <<".", "/", "ckpt", "/", "model", ".", "pth", ".", "tar">>
Scenario1Config == <<"ckpt", "/", "args", ".", "yaml">>
ExplicitConfig == <<"cfg", ".", "yaml">>
ScenarioFilename == <<"vit_base">>
ScenarioSaveDir == <<"exported">>
SomeRecipe == <<"recipe", ".", "yaml">>

\* config files that may or may not be on disk
ConfigFiles ==
    {<<"args", ".", "yaml">>, <<"/", "args", ".", "yaml">>,
     <<"a", "/", "args", ".", "yaml">>, ExplicitConfig}

\* what the parameter source hands over when only --checkpoint is given
Defaults(checkpoint) ==
    [checkpoint |-> checkpoint, config |-> None, recipe |-> None,
     no_qat_conv |-> FALSE, batch_size |-> 1, image_shape |-> DEFAULT_IMAGE_SHAPE,
     save_dir |-> None, filename |-> None]

Shapes ==
    {DEFAULT_IMAGE_SHAPE} \cup
    {[kind |-> k, items |-> s] :
        k \in {"list", "tuple"}, s \in UNION {[1..n -> Dims] : n \in 1..MaxShapeLen}}

\* the run has not started: no object, no error, nothing called
Fresh ==
    /\ pc = "start"
    /\ args = NoArgs
    /\ error = NoError
    /\ calls = <<>>
    /\ manager = <<>>
    /\ model = NoModel
    /\ state_dict = FALSE
    /\ exported = <<>>

\* every short checkpoint path, with the config and the files on disk varied
InitPaths ==
    /\ \E checkpoint \in Strings(MaxLen) \ {<<>>},
          config \in {None, <<>>, ExplicitConfig},
          filename \in {None, <<>>} :
          raw = [Defaults(checkpoint) EXCEPT !.config = config, !.filename = filename]
    /\ \E present \in BOOLEAN, configs \in SUBSET ConfigFiles :
          fs = configs \cup (IF present THEN {OsPath(PathOf(raw.checkpoint))} ELSE {})
    /\ Fresh

\* every short --filename and --save-dir, for the checkpoint of the scenarios
InitNames ==
    /\ \E config \in {None, ExplicitConfig},
          filename \in Strings(MaxLen) \cup {None, ScenarioFilename},
          save_dir \in Strings(MaxDirLen) \cup {None, ScenarioSaveDir} :
          raw = [Defaults(Scenario1Checkpoint) EXCEPT
                    !.config = config, !.filename = filename, !.save_dir = save_dir]
    /\ fs \in SUBSET {PathOf(Scenario1Checkpoint), Scenario1Config}
    /\ Fresh

\* every short --image-shape, with the recipe, batch size and QAT flag varied
InitShapes ==
    /\ \E image_shape \in Shapes, batch_size \in 1..MaxBatch,
          no_qat_conv \in BOOLEAN, recipe \in {None, SomeRecipe} :
          raw = [Defaults(Scenario1Checkpoint) EXCEPT
                    !.image_shape = image_shape, !.batch_size = batch_size,
                    !.no_qat_conv = no_qat_conv, !.recipe = recipe]
    /\ fs \in SUBSET {PathOf(Scenario1Checkpoint), Scenario1Config}
    /\ Fresh

Init == InitPaths \/ InitNames \/ InitShapes

----------------------------------------------------------------------------
(* __main__: parse_args() and then export() *)

\* parse_args: ExportArgs(**vars(args)) runs __post_init__
ParseArgs ==
    /\ pc = "start"
    /\ calls' = Append(calls, Call("ExportArgs", raw.checkpoint))
    /\ \/ /\ PostInitError(raw, fs) = NoError
          /\ args' = PostInit(raw)
          /\ pc' = "resolved"
          /\ UNCHANGED error
       \/ /\ PostInitError(raw, fs) # NoError
          /\ error' = PostInitError(raw, fs)
          /\ pc' = "failed"
          /\ UNCHANGED args
    /\ UNCHANGED <<raw, fs, manager, model, state_dict, exported>>

\* with open(args.config) ...: yaml.safe_load, Namespace(**cfg)
LoadConfig ==
    /\ pc = "resolved"
    /\ calls' = Append(calls, Call("open", args.config))
    /\ \/ pc' = "config" /\ UNCHANGED error
       \/ Raise("open")
    /\ UNCHANGED <<raw, fs, args, manager, model, state_dict, exported>>

\* model = create_model(cfg.model, ...)
CreateModel ==
    /\ pc = "config"
    /\ calls' = Append(calls, Call("create_model", <<>>))
    /\ \/ /\ model' = [built |-> TRUE, log |-> <<>>]
          /\ pc' = "model"
          /\ UNCHANGED error
       \/ Raise("create_model") /\ UNCHANGED model
    /\ UNCHANGED <<raw, fs, args, manager, state_dict, exported>>

\* manager = ScheduledModifierManager.from_yaml(args.recipe)
FromYaml ==
    /\ pc = "model"
    /\ calls' = Append(calls, Call("from_yaml", args.recipe))
    /\ \/ /\ manager' = <<args.recipe>>
          /\ pc' = "manager"
          /\ UNCHANGED error
       \/ Raise("from_yaml") /\ UNCHANGED manager
    /\ UNCHANGED <<raw, fs, args, model, state_dict, exported>>

\* faulty variant of Apply: an exception of manager.apply is caught and the
\* run goes on with the model as it was
Apply_Swallowed ==
    /\ pc = "manager"
    /\ calls' = Append(calls, Call("apply", manager[1]))
    /\ \/ model' = [model EXCEPT !.log = Append(@, "apply")]
       \/ UNCHANGED model
    /\ pc' = "applied"
    /\ UNCHANGED <<raw, fs, args, error, manager, state_dict, exported>>

\* manager.apply(model)
Apply ==
    /\ pc = "manager"
    /\ calls' = Append(calls, Call("apply", manager[1]))
    /\ \/ /\ model' = [model EXCEPT !.log = Append(@, "apply")]
          /\ pc' = "applied"
          /\ UNCHANGED error
       \/ Raise("apply") /\ UNCHANGED model
    /\ UNCHANGED <<raw, fs, args, manager, state_dict, exported>>

\* state_dict = torch.load(args.checkpoint)
TorchLoad ==
    /\ pc = "applied"
    /\ calls' = Append(calls, Call("torch.load", args.checkpoint))
    /\ \/ /\ state_dict' = TRUE
          /\ pc' = "state"
          /\ UNCHANGED error
       \/ Raise("torch.load") /\ UNCHANGED state_dict
    /\ UNCHANGED <<raw, fs, args, manager, model, exported>>

\* model.load_state_dict(state_dict['state_dict'])
LoadStateDict ==
    /\ pc = "state"
    /\ calls' = Append(calls, Call("load_state_dict", <<>>))
    /\ \/ /\ model' = [model EXCEPT !.log = Append(@, "load_state_dict")]
          /\ pc' = "loaded"
          /\ UNCHANGED error
       \/ Raise("load_state_dict") /\ UNCHANGED model
    /\ UNCHANGED <<raw, fs, args, manager, state_dict, exported>>

\* export_onnx(module=model, sample_batch=torch.randn(*batch_shape),
\*             file_path=os.path.join(args.save_dir, args.filename),
\*             convert_qat=not args.no_qat_conv)
\* `exported` holds what a completed export_onnx call wrote.
ExportOnnx ==
    /\ pc = "loaded"
    /\ LET file_path == PathJoin(args.save_dir, args.filename)
       IN  /\ calls' = Append(calls, Call("export_onnx", file_path))
           /\ \/ /\ exported' = Append(exported,
                        [file_path |-> file_path,
                         module |-> model,
                         batch_shape |-> <<args.batch_size>> \o args.image_shape.items,
                         convert_qat |-> ~args.no_qat_conv])
                 /\ pc' = "done"
                 /\ UNCHANGED error
              \/ Raise("export_onnx") /\ UNCHANGED exported
    /\ UNCHANGED <<raw, fs, args, manager, model, state_dict>>

Next ==
    \/ ParseArgs
    \/ LoadConfig
    \/ CreateModel
    \/ FromYaml
    \/ Apply
    \/ TorchLoad
    \/ LoadStateDict
    \/ ExportOnnx

Spec == Init /\ [][Next]_vars

----------------------------------------------------------------------------
(* Vocabulary of the properties *)

\* an ExportArgs object was produced
Constructed == args # NoArgs

\* construction was attempted and raised
ConstructionFailed == pc = "failed" /\ error.at = "ExportArgs" /\ args = NoArgs

Absent(x) == x = None \/ x = <<>>

\* v has a file extension: its last path component holds a dot that comes
\* after some character of that component other than a dot
HasExtension(v) ==
    \E i \in 1..Len(v) :
        /\ v[i] = "."
        /\ \A j \in i..Len(v) : v[j] # "/"
        /\ \E k \in 1..(i - 1) : v[k] # "." /\ \A m \in k..i : v[m] # "/"

\* the checkpoint path names a file: it has a last component other than ".."
NamesFile(p) == HasName(p) /\ PathName(p) # <<".", ".">>

\* the directory that holds p (pathlib's p.parent)
ParentOf(p) ==
    LET parts == Parts(p)
    IN  IF Root(p) = <<>> /\ Len(parts) <= 1 THEN <<".">>
        ELSE Root(p) \o JoinSlash(SubSeq(parts, 1, Len(parts) - 1))

\* args.yaml next to p
SiblingArgsYaml(p) == PathOf(ParentOf(p) \o ARGS_YAML)

\* the base name of p with what follows its last inner dot replaced by .onnx
LastSuffixReplaced(p) ==
    LET name == PathName(p)
        inner == {i \in 2..(Len(name) - 1) : name[i] = "."}
        last == {i \in 1..Len(name) : name[i] = "."}
        cut == IF inner # {} /\ \A i \in last : i < Len(name)
               THEN CHOOSE i \in inner : \A j \in inner : j <= i
               ELSE Len(name) + 1
    IN  SubSeq(name, 1, cut - 1) \o ONNX_EXT

Fns == [i \in 1..Len(calls) |-> calls[i].fn]

IsPrefix(a, b) == Len(a) <= Len(b) /\ a = SubSeq(b, 1, Len(a))

StepOrder ==
    <<"ExportArgs", "open", "create_model", "from_yaml", "apply", "torch.load",
      "load_state_dict", "export_onnx">>

----------------------------------------------------------------------------
(* Properties *)

\* C1: a checkpoint path that does not exist makes construction fail with a
\* FileNotFoundError naming the checkpoint, whatever the other arguments are,
\* also when the config is missing too; no object is produced.
C1_MissingCheckpoint ==
    (pc # "start" /\ OsPath(PathOf(raw.checkpoint)) \notin fs) =>
        /\ ConstructionFailed
        /\ error.type = "FileNotFoundError"
        /\ error.msg = <<"The checkpoint ">> \o PathOf(raw.checkpoint)
                          \o <<" does not exist.">>
        /\ Len(calls) = 1

C1_Witness ==
    /\ pc = "failed"
    /\ OsPath(PathOf(raw.checkpoint)) \notin fs
    /\ raw.config = ExplicitConfig
    /\ ExplicitConfig \notin fs
    /\ error.type = "FileNotFoundError"

\* C2: when the checkpoint exists and the config path resolution ends up with
\* (explicit, else derived) does not, construction fails with a
\* FileNotFoundError naming that config path and no object is produced.
C2_MissingConfig ==
    LET checkpoint == PathOf(raw.checkpoint)
        config == ResolveConfig(raw.config, checkpoint)
    IN  (pc # "start" /\ OsPath(checkpoint) \in fs /\ OsPath(config) \notin fs) =>
            /\ ConstructionFailed
            /\ error.type = "FileNotFoundError"
            /\ error.msg = <<"The config file ">> \o config \o <<" does not exist.">>

C2_Witness ==
    /\ pc = "failed"
    /\ raw.checkpoint = Scenario1Checkpoint
    /\ PathOf(raw.checkpoint) \in fs
    /\ raw.config = ExplicitConfig
    /\ error.msg = <<"The config file ", "cfg", ".", "yaml", " does not exist.">>

\* C3: for an existing checkpoint file P the resolved config is args.yaml in
\* P's own directory when config is absent or empty, and the supplied config
\* otherwise.
C3_SiblingConfig ==
    (Constructed /\ NamesFile(args.checkpoint)) =>
        IF Absent(raw.config)
        THEN OsPath(args.config) = OsPath(SiblingArgsYaml(args.checkpoint))
        ELSE args.config = PathOf(raw.config)

\* C4 as stated: with the filename absent or empty the resolved filename is the
\* checkpoint's base name with its suffix replaced by .onnx, and
\* ./ckpt/model.pth.tar gives model.onnx.
C4_Original ==
    (Constructed /\ Absent(raw.filename)) =>
        /\ EndsWith(args.filename, ONNX_EXT)
        /\ raw.checkpoint = Scenario1Checkpoint =>
               args.filename = <<"model", ".", "onnx">>

\* C4 amended: with the filename absent or empty the resolved filename is the
\* checkpoint's base name with only its last suffix replaced by .onnx (.onnx
\* appended when the name has no suffix); ./ckpt/model.pth.tar gives
\* model.pth.onnx.
C4_LastSuffixReplaced ==
    (Constructed /\ Absent(raw.filename)) =>
        /\ args.filename = LastSuffixReplaced(PathOf(raw.checkpoint))
        /\ raw.checkpoint = Scenario1Checkpoint =>
               args.filename = <<"model", ".", "pth", ".", "onnx">>

C4_Witness ==
    /\ Constructed
    /\ raw.filename = None
    /\ raw.checkpoint = Scenario1Checkpoint
    /\ args.filename = <<"model", ".", "pth", ".", "onnx">>

\* C5 as stated: every constructed ExportArgs has a filename ending in .onnx.
C5_Original == Constructed => EndsWith(args.filename, ONNX_EXT)

\* C5 amended: the resolved filename ends in .onnx whenever the filename was
\* absent, empty or supplied without an extension; a supplied filename with an
\* extension ends in .onnx only if it was supplied that way.
C5_EndsWithOnnx ==
    Constructed =>
        IF Absent(raw.filename) \/ ~HasExtension(raw.filename)
        THEN EndsWith(args.filename, ONNX_EXT)
        ELSE EndsWith(args.filename, ONNX_EXT) <=> EndsWith(raw.filename, ONNX_EXT)

C5_Witness ==
    /\ Constructed
    /\ raw.filename = ScenarioFilename
    /\ args.filename = <<"vit_base", ".", "onnx">>

\* C6: a supplied non-empty filename without an extension gets .onnx appended,
\* one with any extension is kept exactly as supplied.
C6_ExplicitFilename ==
    (Constructed /\ ~Absent(raw.filename)) =>
        args.filename = IF HasExtension(raw.filename)
                        THEN raw.filename
                        ELSE raw.filename \o ONNX_EXT

C6_Witness ==
    /\ Constructed
    /\ raw.filename = <<".", "a">>
    /\ args.filename = <<".", "a", ".", "onnx">>

\* C7 as stated: image_shape is a tuple of length 3 holding the supplied
\* elements in order, for every shape the parameter source can deliver.
C7_Original ==
    Constructed =>
        /\ args.image_shape.kind = "tuple"
        /\ args.image_shape.items = raw.image_shape.items
        /\ Len(args.image_shape.items) = 3

\* C7 amended: image_shape is a tuple holding the supplied elements in order,
\* with as many elements as were supplied: three for the default and for three
\* supplied integers.
C7_TupleOfSupplied ==
    Constructed =>
        /\ args.image_shape.kind = "tuple"
        /\ args.image_shape.items = raw.image_shape.items
        /\ Len(raw.image_shape.items) = 3 => Len(args.image_shape.items) = 3

C7_Witness ==
    /\ Constructed
    /\ raw.image_shape = [kind |-> "list", items |-> <<3, 550, 550>>]
    /\ args.image_shape = [kind |-> "tuple", items |-> <<3, 550, 550>>]

C9_AbsentRecipeNotHandedOver ==
    \A i \in 1..Len(calls) :
        calls[i].fn \in {"from_yaml", "apply"} => calls[i].arg # None

====
